---- MODULE Spec2Model ----
(***************************************************************************)
(* Model of thanos-rule-syncer's RulesObjtoreFetcher (src/fetcher.go):     *)
(* one GetTenantsRules cycle (dispatching goroutine, per-tenant fetch      *)
(* goroutines, collecting loop) running concurrently with SetTenants; and  *)
(* of its RetryableTransport: RoundTrip calls retrying under the shared    *)
(* exponential backoff policy, on a clock that counts milliseconds.        *)
(*                                                                         *)
(* Strings are sequences of one-character strings, so that the prefixing   *)
(* of group names is a real concatenation.                                 *)
(***************************************************************************)
EXTENDS Integers, Sequences, FiniteSets, TLC

\* ------------------------------------------------------------------ bounds

\* Longest tenant list passed to the constructor or to SetTenants in Spec.
MaxTenants == 2

\* Number of SetTenants calls that run concurrently with the cycle.
MaxSetCalls == 1

\* Capacity of the semaphore channel.
concurrency == 10

\* Length of the tenant list of the cycles of SpecSem: one more than slots.
SemTenants == concurrency + 1

\* ------------------------------------------------------------ strings, ids

Dot == <<".">>

Digit == <<"0", "1", "2", "3", "4", "5", "6", "7", "8", "9">>

\* Decimal rendering of a number below 100.
Itoa(n) == IF n < 10 THEN <<Digit[n + 1]>> ELSE <<Digit[(n \div 10) + 1], Digit[(n % 10) + 1]>>

\* The identifier of the i-th tenant: "t1", "t2", ...
TenantName(i) == <<"t">> \o Itoa(i)

\* What an out-of-bounds slice element reads as (torn slice header).
Garbage == <<"?">>

Min(a, b) == IF a < b THEN a ELSE b

\* The tenant lists a caller passes to NewRulesObjtoreFetcher and SetTenants:
\* the runs t(i), ..., t(j) of at most MaxTenants tenants, and the empty list.
TenantLists ==
    {<<>>} \cup {[k \in 1..(j - i + 1) |-> TenantName(i + k - 1)] :
                    i \in 1..MaxTenants, j \in 1..MaxTenants}

\* ------------------------------------------------------- backend responses

\* A rule group as returned by tenant t: its name and an opaque payload, which
\* here remembers where the group came from.
Group(t, n) == [name |-> n, rules |-> [owner |-> t, orig |-> n]]

NoBody == [kind |-> "none", groups |-> <<>>]

\* A response whose body is a YAML rules document.
Doc(status, gs) == [err |-> "nil", status |-> status, body |-> [kind |-> "yaml", groups |-> gs]]

\* A response whose body is no rules document.
Text(status) == [err |-> "nil", status |-> status, body |-> [kind |-> "text", groups |-> <<>>]]

\* A response whose body stream fails while it is read.
Broken(status) == [err |-> "nil", status |-> status, body |-> [kind |-> "broken", groups |-> <<>>]]

\* client.ListRules returning an error and no response.
RequestErr(e) == [err |-> e, status |-> 0, body |-> NoBody]

NoRes == [err |-> "pending", status |-> 0, body |-> NoBody]

\* The rule groups the backend stores for tenant t: two for the first two
\* tenants, "b.c" and "x" for tenant "a", "c" for tenant "a.b", none for the
\* others.
StoredRules(t) ==
    IF t \in {TenantName(1), TenantName(2)}
    THEN <<Group(t, <<"x">>), Group(t, <<"y">>)>>
    ELSE IF t = <<"a">> THEN <<Group(t, <<"b">> \o Dot \o <<"c">>), Group(t, <<"x">>)>>
    ELSE IF t = <<"a">> \o Dot \o <<"b">> THEN <<Group(t, <<"c">>)>>
    ELSE <<>>

\* What a backend that is not healthy can answer to ListRules(ctx, t) instead
\* of 200 and t's rules: 204 and no groups, a body that is no rules document,
\* a body that cannot be read to its end, a server error (with an empty body,
\* which parses as a document of no groups), a failed request.
Troubles(t) == {Doc(204, <<>>), Text(200), Broken(200), Doc(500, <<>>), RequestErr("transport")}

\* --------------------------------------------------------------- the state

VARIABLES
    fTenants,      \* f.tenants: the slice header, [ptr: backing list, len]
    mtx,           \* f.tenantsMtx: "free", "dispatcher" or "setter"
    setPc,         \* position of the SetTenants call
    setArg,        \* argument of the SetTenants call in progress
    setCalls,      \* SetTenants calls completed
    lastInstalled, \* list of the constructor or of the last completed SetTenants
    ctxDone,       \* ctx.Done() of the cycle's context is closed
    preCancelled,  \* the caller's context was cancelled before the call
    dPc,           \* position of the dispatching goroutine
    tenants,       \* its local copy of the tenant list
    rangeList,     \* the slice its range loop iterates
    tasks,         \* the fetch goroutines started so far, in start order
    sem,           \* elements in the semaphore channel
    wg,            \* the WaitGroup counter
    colPc,         \* "recv" while GetTenantsRules runs, then "returned"
    rules,         \* the collecting loop's accumulator
    raw,           \* the groups of the consumed responses as the tenants sent them
    ret,           \* GetTenantsRules' return value, [doc, err]
    healthy,       \* the backend answers every request with the tenant's rules
    backoffConfig, \* the *backoff.ExponentialBackOff a RetryableTransport holds
    now,           \* the wall clock, in milliseconds
    calls,         \* the RoundTrip calls made on the transport
    backend,       \* the underlying transport: the outcomes and latencies it may show
    fileData,      \* the tenants file as last handed to scanFile
    scanOut,       \* what the last read of the tenants file returned, [tenants, err]
    relPc,         \* newTenantsFileReloader: "off", "select" or "returned"
    errorCount,    \* its count of successive read errors
    relRet,        \* its return value: "pending", "nil" or "error"
    reads,         \* the reads it has made, [total, ok]
    recent,        \* whether each of its last reads (at most three) succeeded
    mainCtx,       \* main's ctx is cancelled
    syncPc,        \* the sync actor: "off", a step of fn, "select" or "returned"
    cycles,        \* the sync cycles it has started
    cycle,         \* what the current cycle has done so far
    fetched,       \* rules, err of line 202
    allRes,        \* the backend's answer to the last ListAllRules request
    rulesFile,     \* the rules file on disk
    reloads,       \* the POSTs sent to Thanos Ruler's /-/reload
    errors,        \* run.Group.Run: the first value received from an actor
    grPc,          \* run.Group.Run: "off", "run", "interrupted" or "returned"
    sigPc,         \* the signal handler actor: "off", "running" or "returned"
    srvPc,         \* the internal server actor: "off", "running" or "returned"
    exit           \* how main ended: "no", "fatal" or "ok"

vars == <<fTenants, mtx, setPc, setArg, setCalls, lastInstalled, ctxDone, preCancelled,
          dPc, tenants, rangeList, tasks, sem, wg, colPc, rules, raw, ret, healthy,
          backoffConfig, now, calls, backend,
          fileData, scanOut, relPc, errorCount, relRet, reads, recent,
          mainCtx, syncPc, cycles, cycle, fetched, allRes, rulesFile, reloads,
          errors, grPc, sigPc, srvPc, exit>>

fetcherVars == <<fTenants, mtx, setPc, setArg, setCalls, lastInstalled, ctxDone, preCancelled,
                 dPc, tenants, rangeList, tasks, sem, wg, colPc, rules, raw, ret, healthy>>
transportVars == <<backoffConfig, now, calls, backend>>
reloadVars == <<fileData, scanOut, relPc, errorCount, relRet, reads, recent>>
syncVars == <<mainCtx, syncPc, cycles, cycle, fetched, allRes, rulesFile, reloads,
              errors, grPc, sigPc, srvPc, exit>>

setterVars == <<fTenants, mtx, setPc, setArg, setCalls, lastInstalled>>
cycleVars == <<dPc, tenants, rangeList, tasks, sem, wg, colPc, rules, raw, ret>>

Header(list) == [ptr |-> list, len |-> Len(list)]

\* The elements a slice header denotes; past the backing array it reads garbage.
Elems(h) == [i \in 1..h.len |-> IF i <= Len(h.ptr) THEN h.ptr[i] ELSE Garbage]

NoDoc == [nil |-> TRUE, groups |-> <<>>]

InitFetcher(lists, cancelled, health) ==
    /\ \E l \in lists :
         /\ fTenants = Header(l)
         /\ lastInstalled = l
    /\ mtx = "free"
    /\ setPc = "idle"
    /\ setArg = <<>>
    /\ setCalls = 0
    /\ preCancelled \in cancelled
    /\ ctxDone = preCancelled
    /\ dPc = "lock"
    /\ tenants = <<>>
    /\ rangeList = <<>>
    /\ tasks = <<>>
    /\ sem = 0
    /\ wg = 0
    /\ colPc = "recv"
    /\ rules = <<>>
    /\ raw = <<>>
    /\ ret = [doc |-> NoDoc, err |-> "pending"]
    /\ healthy = health

\* No RetryableTransport is in use.
NoTransport ==
    /\ backoffConfig = [InitialInterval |-> 0, MaxInterval |-> 0, MaxElapsedTime |-> 0,
                        currentInterval |-> 0, startTime |-> 0]
    /\ now = 0
    /\ calls = <<>>
    /\ backend = [answers |-> {}, latencies |-> {}]

\* A tenants file of the given decoding: "empty" (no bytes), "invalid" (not
\* YAML for a TenantsConfig) or "yaml" with the names of its tenants entries.
File(kind, names) == [kind |-> kind, names |-> names]

NotRead == [tenants |-> <<>>, err |-> "pending"]

\* The tenants file has not been read.
NoScan ==
    /\ fileData = File("empty", <<>>)
    /\ scanOut = NotRead

\* newTenantsFileReloader at its select (pc "select") or not started ("off").
InitReloader(pc) ==
    /\ relPc = pc
    /\ errorCount = 0
    /\ relRet = "pending"
    /\ reads = [total |-> 0, ok |-> 0]
    /\ recent = <<>>

NoReloader == NoScan /\ InitReloader("off")

NewCycle ==
    [fetch |-> "pending", requests |-> 0, created |-> FALSE, written |-> FALSE,
     closed |-> FALSE, posted |-> FALSE,
     via |-> "none"]       \* the method of the fetcher that getRules called

\* main with its run.Group not running (pc "off") or just started ("run").
InitMain(pc) ==
    /\ mainCtx = FALSE
    /\ syncPc = IF pc = "off" THEN "off" ELSE "getRules"
    /\ cycles = IF pc = "off" THEN 0 ELSE 1
    /\ cycle = NewCycle
    /\ fetched = [body |-> NoBody, err |-> "pending"]
    /\ allRes = NoRes
    /\ rulesFile = [exists |-> FALSE, body |-> NoBody]
    /\ reloads = 0
    /\ errors = [actor |-> "none", err |-> "pending"]
    /\ grPc = pc
    /\ sigPc = IF pc = "off" THEN "off" ELSE "running"
    /\ srvPc = IF pc = "off" THEN "off" ELSE "running"
    /\ exit = "no"

InitWith(lists, cancelled, health) ==
    InitFetcher(lists, cancelled, health) /\ NoTransport /\ NoReloader /\ InitMain("off")

Init == InitWith(TenantLists, BOOLEAN, FALSE)

\* -------------------------------------------------------------- SetTenants

\* A Lock() that does not wait for the holder of the mutex.
MtxFreeUnchecked == TRUE

\* tenantsMtx.Lock() returns only while no one holds the mutex.
MtxFree == mtx = "free"

\* SetTenants is called with a new list and takes the mutex.
SetLock ==
    /\ setPc = "idle"
    /\ setCalls < MaxSetCalls
    /\ MtxFree
    /\ \E l \in TenantLists : setArg' = l
    /\ mtx' = "setter"
    /\ setPc' = "locked"
    /\ UNCHANGED <<fTenants, setCalls, lastInstalled, ctxDone, preCancelled, healthy, transportVars, reloadVars, syncVars>>
    /\ UNCHANGED cycleVars

\* f.tenants = tenants stores the words of the slice header one by one, in an
\* order the build chooses: the data pointer ...
SetWritePtr ==
    /\ setPc \in {"locked", "lenDone"}
    /\ fTenants' = [fTenants EXCEPT !.ptr = setArg]
    /\ setPc' = IF setPc = "locked" THEN "ptrDone" ELSE "written"
    /\ UNCHANGED <<mtx, setArg, setCalls, lastInstalled, ctxDone, preCancelled, healthy, transportVars, reloadVars, syncVars>>
    /\ UNCHANGED cycleVars

\* ... and the length.
SetWriteLen ==
    /\ setPc \in {"locked", "ptrDone"}
    /\ fTenants' = [fTenants EXCEPT !.len = Len(setArg)]
    /\ setPc' = IF setPc = "locked" THEN "lenDone" ELSE "written"
    /\ UNCHANGED <<mtx, setArg, setCalls, lastInstalled, ctxDone, preCancelled, healthy, transportVars, reloadVars, syncVars>>
    /\ UNCHANGED cycleVars

\* tenantsMtx.Unlock(); SetTenants returns.
SetUnlock ==
    /\ setPc = "written"
    /\ mtx' = "free"
    /\ setPc' = "idle"
    /\ setCalls' = setCalls + 1
    /\ lastInstalled' = setArg
    /\ UNCHANGED <<fTenants, setArg, ctxDone, preCancelled, healthy, transportVars, reloadVars, syncVars>>
    /\ UNCHANGED cycleVars

\* ------------------------------------------------- the dispatching goroutine

\* f.tenantsMtx.Lock()
DLock ==
    /\ dPc = "lock"
    /\ MtxFree
    /\ mtx' = "dispatcher"
    /\ dPc' = "make"
    /\ UNCHANGED <<fTenants, setPc, setArg, setCalls, lastInstalled, ctxDone, preCancelled, healthy, transportVars, reloadVars, syncVars>>
    /\ UNCHANGED <<tenants, rangeList, tasks, sem, wg, colPc, rules, raw, ret>>

\* tenants := make([]string, len(f.tenants))
DMake ==
    /\ dPc = "make"
    /\ tenants' = [i \in 1..fTenants.len |-> <<>>]
    /\ dPc' = "copy"
    /\ UNCHANGED <<ctxDone, preCancelled, healthy, transportVars, reloadVars, syncVars>>
    /\ UNCHANGED setterVars
    /\ UNCHANGED <<rangeList, tasks, sem, wg, colPc, rules, raw, ret>>

\* copy(dst, src): the first min(len(dst), len(src)) elements of src over dst.
Copy(dst, src) == [i \in 1..Len(dst) |-> IF i <= Min(Len(dst), Len(src)) THEN src[i] ELSE dst[i]]

\* copy(tenants, f.tenants)
DCopy ==
    /\ dPc = "copy"
    /\ tenants' = Copy(tenants, Elems(fTenants))
    /\ dPc' = "unlock"
    /\ UNCHANGED <<ctxDone, preCancelled, healthy, transportVars, reloadVars, syncVars>>
    /\ UNCHANGED setterVars
    /\ UNCHANGED <<rangeList, tasks, sem, wg, colPc, rules, raw, ret>>

\* A goroutine that goes on to the loop with the mutex still held, as with a
\* deferred Unlock().
DUnlockDeferred ==
    /\ dPc = "unlock"
    /\ dPc' = "range"
    /\ UNCHANGED <<ctxDone, preCancelled, healthy, transportVars, reloadVars, syncVars>>
    /\ UNCHANGED setterVars
    /\ UNCHANGED <<tenants, rangeList, tasks, sem, wg, colPc, rules, raw, ret>>

\* f.tenantsMtx.Unlock()
DUnlock ==
    /\ dPc = "unlock"
    /\ mtx' = "free"
    /\ dPc' = "range"
    /\ UNCHANGED <<fTenants, setPc, setArg, setCalls, lastInstalled, ctxDone, preCancelled, healthy, transportVars, reloadVars, syncVars>>
    /\ UNCHANGED <<tenants, rangeList, tasks, sem, wg, colPc, rules, raw, ret>>

\* The range expression of the loop, evaluated once: f.tenants, read without
\* the mutex (a torn header if SetTenants is storing it).
RangeExpr == Elems(fTenants)

\* for _, tenantID := range f.tenants
DRange ==
    /\ dPc = "range"
    /\ rangeList' = RangeExpr
    /\ dPc' = "loop"
    /\ UNCHANGED <<ctxDone, preCancelled, healthy, transportVars, reloadVars, syncVars>>
    /\ UNCHANGED setterVars
    /\ UNCHANGED <<tenants, tasks, sem, wg, colPc, rules, raw, ret>>

\* A send on a semaphore channel that never fills.
SemAlwaysRoom == TRUE

\* sem <- struct{}{} can proceed while the channel's buffer is not full.
SemHasRoom == sem < concurrency

\* The select chooses case <-ctx.Done(); the error result is sent next.
DSelectDone ==
    /\ dPc = "loop"
    /\ Len(tasks) < Len(rangeList)
    /\ ctxDone
    /\ dPc' = "sendErr"
    /\ UNCHANGED <<ctxDone, preCancelled, healthy, transportVars, reloadVars, syncVars>>
    /\ UNCHANGED setterVars
    /\ UNCHANGED <<tenants, rangeList, tasks, sem, wg, colPc, rules, raw, ret>>

\* The select chooses case sem <- struct{}{}; wg.Add(1) and the go statement
\* follow, and the new goroutine calls f.client.ListRules(ctx, tenantID). A
\* call with a context that is already done sends no request.
DSelectSem ==
    /\ dPc = "loop"
    /\ Len(tasks) < Len(rangeList)
    /\ SemHasRoom
    /\ sem' = sem + 1
    /\ wg' = wg + 1
    /\ tasks' = Append(tasks, [tenant |-> rangeList[Len(tasks) + 1], pc |-> "fetch",
                               req |-> ~ctxDone, res |-> NoRes])
    /\ UNCHANGED <<ctxDone, preCancelled, healthy, transportVars, reloadVars, syncVars>>
    /\ UNCHANGED setterVars
    /\ UNCHANGED <<dPc, tenants, rangeList, colPc, rules, raw, ret>>

\* The range loop is over; the deferred wg.Wait() is next.
DLoopEnd ==
    /\ dPc = "loop"
    /\ Len(tasks) = Len(rangeList)
    /\ dPc' = "wait"
    /\ UNCHANGED <<ctxDone, preCancelled, healthy, transportVars, reloadVars, syncVars>>
    /\ UNCHANGED setterVars
    /\ UNCHANGED <<tenants, rangeList, tasks, sem, wg, colPc, rules, raw, ret>>

\* wg.Wait() returns once the counter is zero, and close(results) follows.
DWaitClose ==
    /\ dPc = "wait"
    /\ wg = 0
    /\ dPc' = "closed"
    /\ UNCHANGED <<ctxDone, preCancelled, healthy, transportVars, reloadVars, syncVars>>
    /\ UNCHANGED setterVars
    /\ UNCHANGED <<tenants, rangeList, tasks, sem, wg, colPc, rules, raw, ret>>

\* ------------------------------------------------------ the collecting loop

\* rulefmt.Parse(body): the groups of a rules document, or errors.
Parse(body) ==
    IF body.kind = "yaml"
    THEN [groups |-> body.groups, errors |-> 0]
    ELSE [groups |-> <<>>, errors |-> 1]

\* The loop body's checks without the one of the status class.
ErrOfNoStatus(res) ==
    IF res.err # "nil" THEN "request"
    ELSE IF res.body.kind = "broken" THEN "read"
    ELSE IF Parse(res.body).errors > 0 THEN "parse"
    ELSE "nil"

\* The error the loop body returns for a result ("nil": none), in the order of
\* its checks: result.err, the status class, io.ReadAll, rulefmt.Parse.
ErrOf(res) ==
    IF res.err # "nil" THEN "request"
    ELSE IF res.status \div 100 # 2 THEN "status"
    ELSE IF res.body.kind = "broken" THEN "read"
    ELSE IF Parse(res.body).errors > 0 THEN "parse"
    ELSE "nil"

\* Prefixing with the tenant the loop of the dispatching goroutine started
\* first instead of the result's tenant.
PrefixGroupsFirstTenant(tenant, groups) ==
    [i \in 1..Len(groups) |-> [groups[i] EXCEPT !.name = tasks[1].tenant \o Dot \o groups[i].name]]

\* rulesParsed.Groups[i].Name = result.tenant + "." + group.Name, for every i.
PrefixGroups(tenant, groups) ==
    [i \in 1..Len(groups) |-> [groups[i] EXCEPT !.name = tenant \o Dot \o groups[i].name]]

\* rules = rulesParsed.Groups: the accumulator is overwritten.
AppendGroupsOverwrite(acc, groups) == groups

\* rules = append(rules, rulesParsed.Groups...)
AppendGroups(acc, groups) == acc \o groups

\* yaml.Marshal(rulefmt.RuleGroups{Groups: rules}) behind a reader.
Marshal(groups) == [nil |-> FALSE, groups |-> groups]

\* One iteration of "for result := range results" on a received result: return
\* on an error (the deferred cancel() runs), else prefix and append the groups.
Consume(tenant, res) ==
    IF ErrOf(res) # "nil"
    THEN /\ colPc' = "returned"
         /\ ret' = [doc |-> NoDoc, err |-> ErrOf(res)]
         /\ ctxDone' = TRUE
         /\ UNCHANGED <<rules, raw>>
    ELSE /\ rules' = AppendGroups(rules, PrefixGroups(tenant, Parse(res.body).groups))
         /\ raw' = raw \o res.body.groups
         /\ UNCHANGED <<colPc, ret, ctxDone>>

\* results <- tenantFetchResult{tenantID, nil, ctx.Err()} of the dispatching
\* goroutine meets the loop's receive; the goroutine then returns.
DSendErr ==
    /\ dPc = "sendErr"
    /\ colPc = "recv"
    /\ Consume(rangeList[Len(tasks) + 1], RequestErr("canceled"))
    /\ dPc' = "wait"
    /\ UNCHANGED <<preCancelled, healthy, transportVars, reloadVars, syncVars>>
    /\ UNCHANGED setterVars
    /\ UNCHANGED <<tenants, rangeList, tasks, sem, wg>>

\* The results channel is closed: the loop ends and the merged rules are returned.
CReturn ==
    /\ colPc = "recv"
    /\ dPc = "closed"
    /\ colPc' = "returned"
    /\ ret' = [doc |-> Marshal(rules), err |-> "nil"]
    /\ ctxDone' = TRUE
    /\ UNCHANGED <<preCancelled, healthy, transportVars, reloadVars, syncVars>>
    /\ UNCHANGED setterVars
    /\ UNCHANGED <<dPc, tenants, rangeList, tasks, sem, wg, rules, raw>>

\* ------------------------------------------------------ the fetch goroutines

\* What f.client.ListRules(ctx, t) can return: the backend's answer to the
\* request if one was sent, or the context's error once the context is done.
Outcomes(t, requested) ==
    (IF requested THEN {Doc(200, StoredRules(t))} ELSE {})
    \cup (IF requested /\ ~healthy THEN Troubles(t) ELSE {})
    \cup (IF ctxDone THEN {RequestErr("canceled")} ELSE {})

\* f.client.ListRules(ctx, tenantID) returns.
WResponse(i) ==
    /\ tasks[i].pc = "fetch"
    /\ \E o \in Outcomes(tasks[i].tenant, tasks[i].req) :
         tasks' = [tasks EXCEPT ![i].pc = "send", ![i].res = o]
    /\ UNCHANGED <<ctxDone, preCancelled, healthy, transportVars, reloadVars, syncVars>>
    /\ UNCHANGED setterVars
    /\ UNCHANGED <<dPc, tenants, rangeList, sem, wg, colPc, rules, raw, ret>>

\* A goroutine that ends without taking its element out of the semaphore.
KeepSlot(s) == s

\* defer func() { <-sem }()
ReleaseSlot(s) == s - 1

\* results <- tenantFetchResult{tenantID, res, err} meets the loop's receive;
\* the goroutine's deferred <-sem and wg.Done() follow.
WSend(i) ==
    /\ tasks[i].pc = "send"
    /\ colPc = "recv"
    /\ Consume(tasks[i].tenant, tasks[i].res)
    /\ tasks' = [tasks EXCEPT ![i].pc = "done"]
    /\ sem' = ReleaseSlot(sem)
    /\ wg' = wg - 1
    /\ UNCHANGED <<preCancelled, healthy, transportVars, reloadVars, syncVars>>
    /\ UNCHANGED setterVars
    /\ UNCHANGED <<dPc, tenants, rangeList>>

\* ------------------------------------------------------------------ caller

\* The caller's context is cancelled, or its deadline passes, during the call.
ParentCancel ==
    /\ colPc = "recv"
    /\ ~ctxDone
    /\ ctxDone' = TRUE
    /\ UNCHANGED <<preCancelled, healthy, transportVars, reloadVars, syncVars>>
    /\ UNCHANGED setterVars
    /\ UNCHANGED cycleVars

\* ---------------------------------------------------------- specifications

Setter == SetLock \/ SetWritePtr \/ SetWriteLen \/ SetUnlock

Dispatcher ==
    \/ DLock \/ DMake \/ DCopy \/ DUnlock \/ DRange
    \/ DSelectDone \/ DSelectSem \/ DLoopEnd \/ DSendErr \/ DWaitClose

WorkerResponse == \E i \in 1..Len(tasks) : WResponse(i)

WorkerSend == \E i \in 1..Len(tasks) : WSend(i)

Worker == WorkerResponse \/ WorkerSend

\* The steps of a cycle in which neither an error nor a cancellation occurs.
CleanCycle ==
    \/ DLock \/ DMake \/ DCopy \/ DUnlock \/ DRange
    \/ DSelectSem \/ DLoopEnd \/ DWaitClose
    \/ Worker \/ CReturn

Next == Setter \/ Dispatcher \/ Worker \/ CReturn \/ ParentCancel

\* One cycle against a backend that may fail, with concurrent SetTenants calls
\* and a caller who may cancel.
Spec == Init /\ [][Next]_vars

\* The same cycle with no SetTenants call under way.
NextCycle == Dispatcher \/ Worker \/ CReturn \/ ParentCancel

SpecCycle == Init /\ [][NextCycle]_vars

\* A cycle against a healthy backend, never cancelled, with concurrent
\* SetTenants calls.
InitReg == InitWith(TenantLists, {FALSE}, TRUE)

NextReg == Setter \/ CleanCycle

SpecReg == InitReg /\ [][NextReg]_vars

\* A cycle over more tenants than the semaphore has slots, against a healthy
\* backend, never cancelled, with no SetTenants call under way.
InitSem == InitWith({[i \in 1..SemTenants |-> TenantName(i)]}, {FALSE}, TRUE)

NextSem == CleanCycle

SpecSem == InitSem /\ [][NextSem]_vars

\* A cycle over tenants whose identifiers and group names contain dots: "a",
\* "a.b" and the first tenant, two of them in any order, against a healthy
\* backend, never cancelled, with no SetTenants call under way.
InitDots ==
    InitWith({<<t, u>> : t, u \in {<<"a">>, <<"a">> \o Dot \o <<"b">>, TenantName(1)}}
                \ {<<t, t>> : t \in {<<"a">>, <<"a">> \o Dot \o <<"b">>, TenantName(1)}},
             {FALSE}, TRUE)

SpecDots == InitDots /\ [][NextSem]_vars

\* SpecCycle with the scheduler's guarantee that a goroutine which can take a
\* step eventually takes one; the caller owes nothing.
FairCycle ==
    /\ SpecCycle
    /\ WF_vars(Dispatcher)
    /\ WF_vars(WorkerResponse)
    /\ WF_vars(WorkerSend)
    /\ WF_vars(CReturn)

\* ------------------------------------------------------- RetryableTransport
\* src/unnamed/part_004. Durations and clock readings are in milliseconds.

\* Most requests one RoundTrip call sends in the model.
MaxAttempts == 3

\* backoff.NewExponentialBackOff(): the defaults of cenkalti/backoff/v4
\* (RandomizationFactor 0.5 and Multiplier 1.5 are in RandomValue and
\* IncrementCurrentInterval).
DefaultInitialInterval == 500
DefaultMaxInterval == 60000
DefaultMaxElapsedTime == 900000

NewExponentialBackOff ==
    [InitialInterval |-> DefaultInitialInterval,
     MaxInterval     |-> DefaultMaxInterval,
     MaxElapsedTime  |-> DefaultMaxElapsedTime,
     currentInterval |-> DefaultInitialInterval,
     startTime       |-> 0]

RetryableTransportCfg(initial, maxInterval, maxElapsed) ==
    [InitialInterval |-> initial, MaxInterval |-> maxInterval, MaxElapsedTime |-> maxElapsed]

\* The configuration of the test's retrying cases.
TestCfg == RetryableTransportCfg(50, 100, 200)

\* The configurations passed to NewRetryableTransport: the zero value, the
\* test's, one whose budget is just above its initial interval, and one whose
\* budget is several times its longest interval.
TransportCfgs ==
    {RetryableTransportCfg(0, 0, 0), TestCfg,
     RetryableTransportCfg(50, 100, 60), RetryableTransportCfg(20, 40, 200)}

setIfNotZero(dst, src) == IF src # 0 THEN src ELSE dst

NewRetryableTransport(cfg) ==
    [NewExponentialBackOff EXCEPT
        !.InitialInterval = setIfNotZero(@, cfg.InitialInterval),
        !.MaxInterval     = setIfNotZero(@, cfg.MaxInterval),
        !.MaxElapsedTime  = setIfNotZero(@, cfg.MaxElapsedTime)]

\* ExponentialBackOff.Reset()
Reset(b) == [b EXCEPT !.currentInterval = b.InitialInterval, !.startTime = now]

\* The values rand.Float64() takes here, as fractions in [0, 1).
Randoms == {[num |-> 0, den |-> 1], [num |-> 1, den |-> 2], [num |-> 999, den |-> 1000]}

\* getRandomValueFromInterval(0.5, random, currentInterval):
\* delta = 0.5*cur, min = cur - delta, max = cur + delta,
\* Duration(min + random*(max - min + 1)), truncated.
RandomValue(random, cur) ==
    (cur * random.den + 2 * random.num * (cur + 1)) \div (2 * random.den)

\* An increment that forgets the cap of MaxInterval.
IncrementUncapped(b) == [b EXCEPT !.currentInterval = (3 * b.currentInterval) \div 2]

\* ExponentialBackOff.incrementCurrentInterval(), Multiplier 1.5.
IncrementCurrentInterval(b) ==
    [b EXCEPT !.currentInterval =
        IF 3 * b.currentInterval >= 2 * b.MaxInterval
        THEN b.MaxInterval
        ELSE (3 * b.currentInterval) \div 2]

\* backoff.Stop
Stop == -1

\* A NextBackOff() that takes MaxInterval for the budget.
NextBackOffValueMaxInterval(b, random) ==
    LET elapsed == now - b.startTime
        next == RandomValue(random, b.currentInterval)
    IN IF b.MaxElapsedTime # 0 /\ elapsed + next > b.MaxInterval THEN Stop ELSE next

\* ExponentialBackOff.NextBackOff(): the duration it returns for a draw.
NextBackOffValue(b, random) ==
    LET elapsed == now - b.startTime
        next == RandomValue(random, b.currentInterval)
    IN IF b.MaxElapsedTime # 0 /\ elapsed + next > b.MaxElapsedTime THEN Stop ELSE next

\* ------------------------------------------------------ time.ParseDuration

IsDigit(ch) == \E d \in 1..10 : Digit[d] = ch

DigitValue(ch) == (CHOOSE d \in 1..10 : Digit[d] = ch) - 1

\* Number of leading decimal digits of s.
LeadingDigits(s) ==
    CHOOSE k \in 0..Len(s) :
        /\ \A i \in 1..k : IsDigit(s[i])
        /\ k = Len(s) \/ ~IsDigit(s[k + 1])

RECURSIVE Atoi(_)
Atoi(s) == IF s = <<>> THEN 0 ELSE 10 * Atoi(SubSeq(s, 1, Len(s) - 1)) + DigitValue(s[Len(s)])

\* unitMap, as [known, mul, div]: one unit is mul/div milliseconds.
UnitMap(u) ==
    CASE u = <<"n", "s">> -> [known |-> TRUE, mul |-> 1, div |-> 1000000]
      [] u = <<"u", "s">> -> [known |-> TRUE, mul |-> 1, div |-> 1000]
      [] u = <<"m", "s">> -> [known |-> TRUE, mul |-> 1, div |-> 1]
      [] u = <<"s">>      -> [known |-> TRUE, mul |-> 1000, div |-> 1]
      [] u = <<"m">>      -> [known |-> TRUE, mul |-> 60000, div |-> 1]
      [] u = <<"h">>      -> [known |-> TRUE, mul |-> 3600000, div |-> 1]
      [] OTHER            -> [known |-> FALSE, mul |-> 0, div |-> 1]

\* time.ParseDuration on an unsigned whole number followed by one unit (the
\* shape of the header values drawn here): [ok, d]. "0" needs no unit; a
\* number without unit, an unknown unit or no number is an error.
ParseDuration(s) ==
    LET k == LeadingDigits(s)
        n == Atoi(SubSeq(s, 1, k))
        unit == UnitMap(SubSeq(s, k + 1, Len(s)))
    IN IF s = <<"0">> THEN [ok |-> TRUE, d |-> 0]
       ELSE IF k = 0 \/ ~unit.known THEN [ok |-> FALSE, d |-> 0]
       ELSE [ok |-> TRUE, d |-> (n * unit.mul) \div unit.div]

\* ------------------------------------------------- what the backend answers

StatusTooManyRequests == 429

\* The statuses a backend answers with: 1xx, 2xx, 3xx, 4xx, 429 and 5xx.
Statuses == {101, 200, 299, 302, 400, 404, StatusTooManyRequests, 500}

\* Retry-After values: none, two durations, and a number of seconds.
NoHeader == <<>>
RetryAfter100ms == <<"1", "0", "0", "m", "s">>
RetryAfter1h == <<"1", "h">>
RetryAfterSeconds == <<"1", "2", "0">>
RetryAfters == {NoHeader, RetryAfter100ms, RetryAfter1h, RetryAfterSeconds}

\* The underlying transport returns a response ...
Response(status, retryAfter) == [err |-> "nil", status |-> status, retryAfter |-> retryAfter]

\* ... or an error: a net.Error whose Timeout() is true ("timeout", and
\* "deadline", the context.DeadlineExceeded of a request whose context ran out
\* of time), or another error ("refused", and "canceled", context.Canceled).
TransportErr(e) == [err |-> e, status |-> 0, retryAfter |-> NoHeader]

NoResponse == [err |-> "nil", status |-> 0, retryAfter |-> NoHeader]

\* A type assertion to net.Error without the call of Timeout().
IsNetError(e) == e \in {"timeout", "deadline", "refused"}

IsTimeout(e) == e \in {"timeout", "deadline"}

AnyOutcome ==
    {Response(s, NoHeader) : s \in Statuses}
    \cup {Response(StatusTooManyRequests, h) : h \in RetryAfters}
    \cup {TransportErr("timeout"), TransportErr("refused")}

\* How long the underlying transport takes over one request.
Latencies == {0, 30}

\* An underlying transport that may answer anything.
AnyBackend == [answers |-> AnyOutcome, latencies |-> Latencies]

\* One that is slow and answers 500, or 429 with Retry-After: 100ms.
BusyBackend ==
    [answers |-> {Response(500, NoHeader), Response(StatusTooManyRequests, RetryAfter100ms)},
     latencies |-> {30}]

\* ----------------------------------------------------------------- RoundTrip

\* A RoundTrip call that is made at time `arrival`.
NewCall(arrival) ==
    [pc        |-> "idle",      \* idle, request, inflight, sleep, nextBackOff, wait, returned
     wake      |-> arrival,     \* when the call can take its next step
     startTime |-> 0,           \* startTime of line 48
     resp      |-> 0,           \* resp: the status of the response, 0 for nil
     err       |-> "nil",       \* err
     opErr     |-> "nil",       \* what operation() returned last ...
     opKind    |-> "nil",       \* ... and its kind: nil, retry (plain), permanent
     ret       |-> [resp |-> 0, err |-> "pending"],
     attempts  |-> 0,           \* requests sent
     retries   |-> 0,           \* NextBackOff() calls made by this call
     seen      |-> {},          \* the outcomes of its attempts
     last      |-> NoResponse,  \* the outcome of its last attempt
     firstRTT  |-> 0,           \* how long its first attempt took
     lastSent  |-> 0,           \* when its last request was sent
     lastGot   |-> 0,           \* when its last attempt came back
     naps      |-> 0,           \* Retry-After sleeps taken
     lastNap   |-> 0,           \* the last Retry-After sleep
     lastWait  |-> 0,           \* the last backoff wait
     ctx       |-> "live",      \* req.Context(): live, canceled or deadline
     ended     |-> 0,           \* when that context was done
     late      |-> 0]           \* requests after the first sent after that

NoSleep == -1

Nil == [kind |-> "nil", err |-> "nil", sleep |-> NoSleep]

\* A plain error: backoff.Retry asks the policy for the next wait.
Retryable(e, sleep) == [kind |-> "retry", err |-> e, sleep |-> sleep]

\* backoff.Permanent(err)
Permanent(e) == [kind |-> "permanent", err |-> e, sleep |-> NoSleep]

\* Lines 52-57: the transport returned an error.
OnTransportErr(e) == IF IsTimeout(e) THEN Retryable(e, NoSleep) ELSE Permanent(e)

\* A check of the delay alone, without the time already spent.
TooLongDelayOnly(delay, since, maxElapsed) == delay > maxElapsed

\* Line 67: the suggested delay does not fit the budget.
TooLong(delay, since, maxElapsed) == delay > maxElapsed \/ since + delay > maxElapsed

\* A 429 that is permanent when its Retry-After value does not parse.
OnTooManyRequestsStrict(retryAfter, since, maxElapsed) ==
    LET parsed == ParseDuration(retryAfter)
    IN IF retryAfter # NoHeader /\ parsed.ok
       THEN IF TooLong(parsed.d, since, maxElapsed)
            THEN Permanent("retry-after delay is greater than max elapsed time")
            ELSE Retryable("rate limit reached", parsed.d)
       ELSE IF retryAfter # NoHeader
            THEN Permanent("rate limit reached")
            ELSE Retryable("rate limit reached", NoSleep)

\* A 429 whose Retry-After delay is never slept.
OnTooManyRequestsNoSleep(retryAfter, since, maxElapsed) ==
    LET parsed == ParseDuration(retryAfter)
    IN IF retryAfter # NoHeader /\ parsed.ok /\ TooLong(parsed.d, since, maxElapsed)
       THEN Permanent("retry-after delay is greater than max elapsed time")
       ELSE Retryable("rate limit reached", NoSleep)

\* A 429 that is permanent whenever its Retry-After value parses.
OnTooManyRequestsPermanent(retryAfter, since, maxElapsed) ==
    IF retryAfter # NoHeader /\ ParseDuration(retryAfter).ok
    THEN Permanent("retry-after delay is greater than max elapsed time")
    ELSE Retryable("rate limit reached", NoSleep)

\* Lines 63-74: 429, with the Retry-After header.
OnTooManyRequests(retryAfter, since, maxElapsed) ==
    LET parsed == ParseDuration(retryAfter)
    IN IF retryAfter # NoHeader /\ parsed.ok
       THEN IF TooLong(parsed.d, since, maxElapsed)
            THEN Permanent("retry-after delay is greater than max elapsed time")
            ELSE Retryable("rate limit reached", parsed.d)
       ELSE Retryable("rate limit reached", NoSleep)

\* A client error taken for a plain error.
OnClientErrorRetryable == Retryable("client error", NoSleep)

\* Lines 75-77: another status of 400 or more.
OnClientError == Permanent("client error")

\* Lines 60-62: a status of 500 or more.
OnServerError == Retryable("server error", NoSleep)

\* operation() after the transport returned `out`, `since` after startTime.
Operation(out, since, maxElapsed) ==
    IF out.err # "nil" THEN OnTransportErr(out.err)
    ELSE IF out.status >= 500 THEN OnServerError
    ELSE IF out.status = StatusTooManyRequests
         THEN OnTooManyRequests(out.retryAfter, since, maxElapsed)
    ELSE IF out.status >= 400 THEN OnClientError
    ELSE Nil

\* A return of the error of backoff.Retry in place of err.
RoundTripReturnRetryErr(call) == [resp |-> call.resp, err |-> call.opErr]

\* Line 85: return resp, err
RoundTripReturn(call) == [resp |-> call.resp, err |-> call.err]

Due(c) == calls[c].wake <= now

\* Line 48 and the b.Reset() that opens backoff.Retry.
Call(c) ==
    /\ calls[c].pc = "idle"
    /\ Due(c)
    /\ calls' = [calls EXCEPT ![c].pc = "request", ![c].startTime = now]
    /\ backoffConfig' = Reset(backoffConfig)
    /\ UNCHANGED <<now, backend>>
    /\ UNCHANGED <<fetcherVars, reloadVars, syncVars>>

\* Line 51: the request goes to the underlying transport, which returns at
\* once when the context of the request is done.
Request(c) ==
    /\ calls[c].pc = "request"
    /\ calls[c].attempts < MaxAttempts
    /\ \E l \in IF calls[c].ctx = "live" THEN backend.latencies ELSE {0} :
         calls' = [calls EXCEPT ![c].pc = "inflight",
                                ![c].wake = now + l,
                                ![c].attempts = @ + 1,
                                ![c].late = IF calls[c].ctx # "live" /\ calls[c].attempts > 0
                                            THEN @ + 1 ELSE @,
                                ![c].lastSent = now,
                                ![c].firstRTT = IF calls[c].attempts = 0 THEN l ELSE @]
    /\ UNCHANGED <<backoffConfig, now, backend>>
    /\ UNCHANGED <<fetcherVars, reloadVars, syncVars>>

\* Lines 51-81: the transport returns, with the context's error when the
\* context of the request is done, and operation() classifies the outcome;
\* on nil or a permanent error backoff.Retry and RoundTrip return.
Respond(c) ==
    /\ calls[c].pc = "inflight"
    /\ Due(c)
    /\ \E out \in IF calls[c].ctx = "live" THEN backend.answers
                  ELSE {TransportErr(calls[c].ctx)} :
         LET op == Operation(out, now - calls[c].startTime, backoffConfig.MaxElapsedTime)
             got == [calls[c] EXCEPT !.resp = out.status, !.err = out.err, !.opErr = op.err,
                                     !.opKind = op.kind,
                                     !.seen = @ \cup {out}, !.last = out, !.lastGot = now]
         IN calls' = [calls EXCEPT ![c] =
                CASE op.kind = "retry" /\ op.sleep # NoSleep ->
                       [got EXCEPT !.pc = "sleep", !.wake = now + op.sleep,
                                   !.naps = @ + 1, !.lastNap = op.sleep]
                  [] op.kind = "retry" /\ op.sleep = NoSleep ->
                       [got EXCEPT !.pc = "nextBackOff"]
                  [] OTHER ->
                       [got EXCEPT !.pc = "returned", !.ret = RoundTripReturn(got)]]
    /\ UNCHANGED <<backoffConfig, now, backend>>
    /\ UNCHANGED <<fetcherVars, reloadVars, syncVars>>

\* Line 71: time.Sleep(delay) is over, operation() returns the 429 error.
Slept(c) ==
    /\ calls[c].pc = "sleep"
    /\ Due(c)
    /\ calls' = [calls EXCEPT ![c].pc = "nextBackOff"]
    /\ UNCHANGED <<backoffConfig, now, backend>>
    /\ UNCHANGED <<fetcherVars, reloadVars, syncVars>>

\* backoff.Retry after a plain error: b.NextBackOff(), then return on Stop or
\* start the timer.
NextBackOff(c) ==
    /\ calls[c].pc = "nextBackOff"
    /\ \E random \in Randoms :
         LET next == NextBackOffValue(backoffConfig, random)
             asked == [calls[c] EXCEPT !.retries = @ + 1]
         IN calls' = [calls EXCEPT ![c] =
                IF next = Stop
                THEN [asked EXCEPT !.pc = "returned", !.ret = RoundTripReturn(asked)]
                ELSE [asked EXCEPT !.pc = "wait", !.wake = now + next, !.lastWait = next]]
    /\ backoffConfig' = IncrementCurrentInterval(backoffConfig)
    /\ UNCHANGED <<now, backend>>
    /\ UNCHANGED <<fetcherVars, reloadVars, syncVars>>

\* The timer of backoff.Retry fires: the next attempt.
Timer(c) ==
    /\ calls[c].pc = "wait"
    /\ Due(c)
    /\ calls' = [calls EXCEPT ![c].pc = "request"]
    /\ UNCHANGED <<backoffConfig, now, backend>>
    /\ UNCHANGED <<fetcherVars, reloadVars, syncVars>>

\* The context of the request is cancelled or its deadline passes while the
\* call is under way: a request in flight is aborted, and nothing else in
\* RoundTrip or backoff.Retry looks at the context.
CtxEnds(c) ==
    /\ calls[c].pc \notin {"idle", "returned"}
    /\ calls[c].ctx = "live"
    /\ \E e \in {"canceled", "deadline"} :
         calls' = [calls EXCEPT ![c].ctx = e,
                                ![c].ended = now,
                                ![c].wake = IF calls[c].pc = "inflight" THEN now ELSE @]
    /\ UNCHANGED <<backoffConfig, now, backend>>
    /\ UNCHANGED <<fetcherVars, reloadVars, syncVars>>

Blocked(c) == calls[c].pc \in {"idle", "inflight", "sleep", "wait"} /\ ~Due(c)

CanStep(c) ==
    \/ calls[c].pc \in {"idle", "inflight", "sleep", "wait"} /\ Due(c)
    \/ calls[c].pc = "request" /\ calls[c].attempts < MaxAttempts
    \/ calls[c].pc = "nextBackOff"

\* Time passes until the first of the waiting calls is due; steps that are
\* due take no time.
Advance ==
    /\ \E c \in 1..Len(calls) : Blocked(c)
    /\ \A c \in 1..Len(calls) : ~CanStep(c)
    /\ now' = CHOOSE t \in {calls[c].wake : c \in {d \in 1..Len(calls) : Blocked(d)}} :
                 \A c \in 1..Len(calls) : Blocked(c) => t <= calls[c].wake
    /\ UNCHANGED <<backoffConfig, calls, backend>>
    /\ UNCHANGED <<fetcherVars, reloadVars, syncVars>>

StartCall == \E c \in 1..Len(calls) : Call(c)
SendRequest == \E c \in 1..Len(calls) : Request(c)
GetResponse == \E c \in 1..Len(calls) : Respond(c)
EndSleep == \E c \in 1..Len(calls) : Slept(c)
AskBackOff == \E c \in 1..Len(calls) : NextBackOff(c)
TimerFires == \E c \in 1..Len(calls) : Timer(c)

InitTransport(cfgs, arrivals, backends) ==
    /\ \E cfg \in cfgs : backoffConfig = NewRetryableTransport(cfg)
    /\ now = 0
    /\ calls \in arrivals
    /\ backend \in backends

\* The fetcher plays no part in the runs of the transport.
IdleFetcher == InitFetcher({<<>>}, {FALSE}, TRUE)

NextRoundTrip ==
    \/ StartCall \/ SendRequest \/ GetResponse \/ EndSleep \/ AskBackOff \/ TimerFires
    \/ Advance

\* One RoundTrip call at a time on a transport of any configuration, against
\* a backend that may answer anything.
InitRoundTrip ==
    /\ IdleFetcher /\ NoReloader /\ InitMain("off")
    /\ InitTransport(TransportCfgs, {<<NewCall(0)>>}, {AnyBackend})

SpecRoundTrip == InitRoundTrip /\ [][NextRoundTrip]_vars

\* Two RoundTrip calls on one transport with the test's configuration, the
\* second made while the first is under way, against a busy backend.
InitShared ==
    /\ IdleFetcher /\ NoReloader /\ InitMain("off")
    /\ InitTransport({TestCfg}, {<<NewCall(0), NewCall(60)>>}, {BusyBackend})

SpecShared == InitShared /\ [][NextRoundTrip]_vars

CallerCancels == \E c \in 1..Len(calls) : CtxEnds(c)

NextAbort == NextRoundTrip \/ CallerCancels

\* One RoundTrip call with the test's configuration against a busy backend,
\* for a request whose context may be cancelled or time out.
InitAbort ==
    /\ IdleFetcher /\ NoReloader /\ InitMain("off")
    /\ InitTransport({TestCfg}, {<<NewCall(0)>>}, {BusyBackend})

SpecAbort == InitAbort /\ [][NextAbort]_vars

\* ----------------------------------------------------------------- scanFile
\* src/tenant.go:82-126.

\* Most tenants entries of a tenants file.
MaxNames == 3

\* The files handed to scanFile: no bytes, bytes that are no YAML, and entries
\* that carry a tenant's name or none ("").
Files ==
    LET EntryNames == {<<>>} \cup {TenantName(i) : i \in 1..MaxNames}
    IN {File("empty", <<>>), File("invalid", <<>>)}
       \cup {File("yaml", names) : names \in UNION {[1..n -> EntryNames] : n \in 0..MaxNames}}

\* Lines 103-114: the keys of tenantsSet, every non-empty name once.
TenantsSet(names) == {names[i] : i \in 1..Len(names)} \ {<<>>}

\* Lines 105-109: the names met again, which are only logged.
Duplicates(names) ==
    {names[i] : i \in {j \in 1..Len(names) :
                          names[j] # <<>> /\ \E k \in 1..(j - 1) : names[k] = names[j]}}

\* Lines 120-123: the keys of the map in the order the range happens to take.
Orders(set) ==
    {seq \in [1..Cardinality(set) -> set] : \A i, j \in 1..Cardinality(set) :
                                              i # j => seq[i] # seq[j]}

ScanErr(e) == [tenants |-> <<>>, err |-> e]

\* scanFile(f): the results it can return.
ScanFile(f) ==
    IF f.kind = "empty" THEN {ScanErr("no tenants found in file")}
    ELSE IF f.kind = "invalid" THEN {ScanErr("failed to unmarshal tenants file")}
    ELSE IF Len(f.names) = 0 THEN {ScanErr("no tenants found in file")}
    ELSE {[tenants |-> seq, err |-> "nil"] : seq \in Orders(TenantsSet(f.names))}

\* scanFile is called on the file.
ScanFileCall ==
    /\ scanOut = NotRead
    /\ scanOut' \in ScanFile(fileData)
    /\ UNCHANGED <<fileData, relPc, errorCount, relRet, reads, recent>>
    /\ UNCHANGED <<fetcherVars, transportVars, syncVars>>

InitScan ==
    /\ IdleFetcher /\ NoTransport /\ InitMain("off") /\ InitReloader("off")
    /\ fileData \in Files
    /\ scanOut = NotRead

NextScan == ScanFileCall

\* scanFile applied once to any file of at most MaxNames entries.
SpecScan == InitScan /\ [][NextScan]_vars

\* ------------------------------------------------ newTenantsFileReloader
\* src/tenant.go:23-70.

\* Most reads of the tenants file the reloader makes in the model.
MaxReads == 7

\* readTenantsFile(file), for what the file is at that time.
ReadTenantsFile(f) ==
    IF f.kind = "missing" THEN {ScanErr("failed to open tenants file")}
    ELSE IF f.kind = "unreadable" THEN {ScanErr("failed to read tenants file")}
    ELSE ScanFile(f)

\* What the tenants file is found to be on a tick; os.Open or io.ReadAll may
\* fail too.
ReloadFiles ==
    {File("missing", <<>>), File("unreadable", <<>>), File("empty", <<>>), File("invalid", <<>>),
     File("yaml", <<TenantName(1)>>),
     File("yaml", <<TenantName(2), TenantName(1)>>),
     File("yaml", <<TenantName(2), <<>>, TenantName(2)>>),
     File("yaml", <<<<>>>>)}

\* A limit of four successive errors instead of three.
FourErrors(n) == n >= 4

\* if errorCount >= 3
TooManyErrors(n) == n >= 3

\* A read error after which the list read is installed all the same.
OnReadErrorInstalls(n) ==
    [errorCount |-> n + 1, returns |-> TooManyErrors(n + 1), set |-> TRUE]

\* err != nil: count the error, return at the limit, else continue.
OnReadError(n) ==
    [errorCount |-> n + 1, returns |-> TooManyErrors(n + 1), set |-> FALSE]

\* A successful read that leaves the count of errors as it is.
OnReadSuccessKeepsCount(n) ==
    [errorCount |-> n, returns |-> FALSE, set |-> TRUE]

\* err == nil: errorCount = 0, then tenset.SetTenants(tenants).
OnReadSuccess(n) ==
    [errorCount |-> 0, returns |-> FALSE, set |-> TRUE]

\* SetTenants given the list that was installed before.
SetTenantsArgStale(out) == lastInstalled

\* The argument of tenset.SetTenants(tenants).
SetTenantsArg(out) == out.tenants

\* case <-ticker.C: one read of the tenants file and what follows from it.
\* SetTenants runs to its end here, no other user of the mutex being active.
RelTick ==
    /\ relPc = "select"
    /\ reads.total < MaxReads
    /\ MtxFree /\ setPc = "idle"
    /\ \E f \in ReloadFiles : \E out \in ReadTenantsFile(f) :
         LET ok == out.err = "nil"
             h  == IF ok THEN OnReadSuccess(errorCount) ELSE OnReadError(errorCount)
         IN /\ fileData' = f
            /\ scanOut' = out
            /\ errorCount' = h.errorCount
            /\ relPc' = IF h.returns THEN "returned" ELSE "select"
            /\ relRet' = IF h.returns THEN "error" ELSE relRet
            /\ reads' = [total |-> reads.total + 1,
                         ok |-> reads.ok + (IF ok THEN 1 ELSE 0)]
            /\ recent' = IF Len(recent) = 3 THEN <<recent[2], recent[3], ok>>
                          ELSE Append(recent, ok)
            /\ IF h.set
               THEN /\ setArg' = SetTenantsArg(out)
                    /\ fTenants' = Header(SetTenantsArg(out))
                    /\ lastInstalled' = SetTenantsArg(out)
                    /\ setCalls' = setCalls + 1
               ELSE UNCHANGED <<setArg, fTenants, lastInstalled, setCalls>>
    /\ UNCHANGED <<mtx, setPc, ctxDone, preCancelled, healthy>>
    /\ UNCHANGED <<cycleVars, transportVars, syncVars>>

\* case <-ctx.Done(): return nil
RelDone ==
    /\ relPc = "select"
    /\ mainCtx
    /\ relPc' = "returned"
    /\ relRet' = "nil"
    /\ UNCHANGED <<fileData, scanOut, errorCount, reads, recent>>
    /\ UNCHANGED <<fetcherVars, transportVars, syncVars>>

\* The caller of the reloader cancels ctx.
CancelCtx ==
    /\ ~mainCtx
    /\ mainCtx' = TRUE
    /\ UNCHANGED <<syncPc, cycles, cycle, fetched, allRes, rulesFile, reloads,
                   errors, grPc, sigPc, srvPc, exit>>
    /\ UNCHANGED <<fetcherVars, transportVars, reloadVars>>

InitReload ==
    /\ InitFetcher({<<TenantName(1)>>}, {FALSE}, TRUE)
    /\ NoTransport /\ InitMain("off") /\ NoScan
    /\ InitReloader("select")

NextReload == RelTick \/ RelDone \/ CancelCtx

\* newTenantsFileReloader alone, with a reader of any behaviour and a context
\* that may be cancelled at any time.
SpecReload == InitReload /\ [][NextReload]_vars

\* ----------------------------------------------------------------- main
\* src/unnamed/part_003:84-290, started with -rules-backend-url, -tenants-file
\* and no -tenant: getRules is GetAllRules (lines 163-167).

\* Most sync cycles (the first one and those of the ticker) in the model.
MaxCycles == 2

\* What client.ListAllRules(ctx) can return while ctx is not done.
AllAnswers ==
    {Doc(200, StoredRules(TenantName(1))), Text(299), Broken(200),
     Doc(302, StoredRules(TenantName(1))), Text(404),
     Doc(500, <<>>), RequestErr("transport")}

\* GetAllRules that hands the body on whatever the status is.
GetAllRulesAnyStatus(res) ==
    IF res.err # "nil" THEN [body |-> NoBody, err |-> "failed to do http request"]
    ELSE [body |-> res.body, err |-> "nil"]

\* fetcher.go:138-149, given what client.ListAllRules returned.
GetAllRules(res) ==
    IF res.err # "nil" THEN [body |-> NoBody, err |-> "failed to do http request"]
    ELSE IF res.status \div 100 # 2
         THEN [body |-> NoBody, err |-> "got unexpected status from rules backend"]
         ELSE [body |-> res.body, err |-> "nil"]

\* part_003:163-167: the method main takes as its fetcher when the rules
\* backend is configured, given the value of -tenant (empty in the runs
\* modelled here; with -tenants-file it has to be, part_003:293-295).
FetcherFunc(tenant) == IF Len(tenant) > 0 THEN "GetTenantsRules" ELSE "GetAllRules"

\* fn going on to os.Create whether or not getRules failed.
OnGetRulesGoesOn(err) == "create"

\* if err != nil { return ... } after f.getRules(ctx)
OnGetRules(err) == IF err # "nil" THEN "select" ELSE "create"

\* fn going on to the reload whether or not file.Close() failed.
OnCloseGoesOn(err) == "reload"

\* if err := file.Close(); err != nil { return ... }
OnClose(err) == IF err # "nil" THEN "select" ELSE "reload"

\* rules, err := f.getRules(ctx): one ListAllRules request. The request fails
\* when ctx is done already.
SyncGetRules ==
    /\ syncPc = "getRules"
    /\ \E res \in IF mainCtx THEN {RequestErr("canceled")} ELSE AllAnswers :
         /\ allRes' = res
         /\ fetched' = GetAllRules(res)
         /\ cycle' = [cycle EXCEPT !.via = FetcherFunc(<<>>),
                                   !.requests = @ + 1,
                                   !.fetch = IF GetAllRules(res).err = "nil"
                                             THEN "ok" ELSE "failed"]
         /\ syncPc' = OnGetRules(GetAllRules(res).err)
    /\ UNCHANGED <<mainCtx, cycles, rulesFile, reloads, errors, grPc, sigPc, srvPc, exit>>
    /\ UNCHANGED <<fetcherVars, transportVars, reloadVars>>

\* file, err := os.Create(cfg.file): the file exists and is empty.
SyncCreate ==
    /\ syncPc = "create"
    /\ \E ok \in BOOLEAN :
         IF ok
         THEN /\ rulesFile' = [exists |-> TRUE, body |-> [kind |-> "yaml", groups |-> <<>>]]
              /\ cycle' = [cycle EXCEPT !.created = TRUE]
              /\ syncPc' = "write"
         ELSE /\ syncPc' = "select"
              /\ UNCHANGED <<rulesFile, cycle>>
    /\ UNCHANGED <<mainCtx, cycles, fetched, allRes, reloads, errors, grPc, sigPc, srvPc, exit>>
    /\ UNCHANGED <<fetcherVars, transportVars, reloadVars>>

\* w.ReadFrom(rules): the body is copied to the file, to its end unless reading
\* the body or writing the file fails.
SyncWrite ==
    /\ syncPc = "write"
    /\ \E ok \in IF fetched.body.kind = "broken" THEN {FALSE} ELSE BOOLEAN :
         IF ok
         THEN /\ rulesFile' = [rulesFile EXCEPT !.body = fetched.body]
              /\ cycle' = [cycle EXCEPT !.written = TRUE]
              /\ syncPc' = "close"
         ELSE /\ rulesFile' = [rulesFile EXCEPT !.body = [kind |-> "partial", groups |-> <<>>]]
              /\ syncPc' = "select"
              /\ UNCHANGED cycle
    /\ UNCHANGED <<mainCtx, cycles, fetched, allRes, reloads, errors, grPc, sigPc, srvPc, exit>>
    /\ UNCHANGED <<fetcherVars, transportVars, reloadVars>>

\* file.Close()
SyncClose ==
    /\ syncPc = "close"
    /\ \E err \in {"nil", "close"} :
         /\ cycle' = [cycle EXCEPT !.closed = (err = "nil")]
         /\ syncPc' = OnClose(err)
    /\ UNCHANGED <<mainCtx, cycles, fetched, allRes, rulesFile, reloads, errors, grPc, sigPc, srvPc, exit>>
    /\ UNCHANGED <<fetcherVars, transportVars, reloadVars>>

\* reloadThanosRule: the POST to <thanos-rule-url>/-/reload. With ctx done
\* client.Do fails before anything is sent; otherwise the request may fail
\* unsent, or it is sent and answered or not.
SyncReload ==
    /\ syncPc = "reload"
    /\ \E sent \in IF mainCtx THEN {FALSE} ELSE BOOLEAN :
         /\ reloads' = reloads + (IF sent THEN 1 ELSE 0)
         /\ cycle' = [cycle EXCEPT !.posted = sent]
    /\ syncPc' = "select"
    /\ UNCHANGED <<mainCtx, cycles, fetched, allRes, rulesFile, errors, grPc, sigPc, srvPc, exit>>
    /\ UNCHANGED <<fetcherVars, transportVars, reloadVars>>

\* case <-ticker.C: the next cycle begins.
SyncTick ==
    /\ syncPc = "select"
    /\ cycles < MaxCycles
    /\ cycles' = cycles + 1
    /\ cycle' = NewCycle
    /\ fetched' = [body |-> NoBody, err |-> "pending"]
    /\ syncPc' = "getRules"
    /\ UNCHANGED <<mainCtx, allRes, rulesFile, reloads, errors, grPc, sigPc, srvPc, exit>>
    /\ UNCHANGED <<fetcherVars, transportVars, reloadVars>>

\* case <-ctx.Done(): return nil
SyncDone ==
    /\ syncPc = "select"
    /\ mainCtx
    /\ syncPc' = "returned"
    /\ UNCHANGED <<mainCtx, cycles, cycle, fetched, allRes, rulesFile, reloads, errors, grPc, sigPc, srvPc, exit>>
    /\ UNCHANGED <<fetcherVars, transportVars, reloadVars>>

\* run.SignalHandler: an interrupt signal arrives, or its context is done;
\* it returns an error in both cases.
SigReturn ==
    /\ sigPc = "running"
    /\ sigPc' = "returned"
    /\ UNCHANGED <<mainCtx, syncPc, cycles, cycle, fetched, allRes, rulesFile, reloads, errors, grPc, srvPc, exit>>
    /\ UNCHANGED <<fetcherVars, transportVars, reloadVars>>

\* s.ListenAndServe() returns: it failed, or s.Shutdown was called; it returns
\* an error in both cases.
SrvReturn ==
    /\ srvPc = "running"
    /\ srvPc' = "returned"
    /\ UNCHANGED <<mainCtx, syncPc, cycles, cycle, fetched, allRes, rulesFile, reloads, errors, grPc, sigPc, exit>>
    /\ UNCHANGED <<fetcherVars, transportVars, reloadVars>>

\* The actors added to the run.Group; the reloader only with -tenants-file.
Actors ==
    (IF relPc = "off" THEN {} ELSE {"reloader"}) \cup {"signal", "sync", "server"}

HasReturnedActor(a) ==
    CASE a = "reloader" -> relPc = "returned"
      [] a = "signal"   -> sigPc = "returned"
      [] a = "sync"     -> syncPc = "returned"
      [] a = "server"   -> srvPc = "returned"

\* What actor a returned.
ActorErr(a) ==
    CASE a = "reloader" -> relRet
      [] a = "signal"   -> "error"
      [] a = "sync"     -> "nil"
      [] a = "server"   -> "error"

\* An interrupt function that leaves ctx as it is.
NoCancel(ctx) == ctx

\* cancel()
Cancel(ctx) == TRUE

\* run.Group.Run receives the first return value of an actor and calls the
\* interrupt function of every actor: cancel() (three times) and s.Shutdown.
GroupInterrupt ==
    /\ grPc = "run"
    /\ \E a \in Actors :
         /\ HasReturnedActor(a)
         /\ errors' = [actor |-> a, err |-> ActorErr(a)]
    /\ mainCtx' = Cancel(mainCtx)
    /\ grPc' = "interrupted"
    /\ UNCHANGED <<syncPc, cycles, cycle, fetched, allRes, rulesFile, reloads, sigPc, srvPc, exit>>
    /\ UNCHANGED <<fetcherVars, transportVars, reloadVars>>

\* Run has received the return value of every actor and returns the first;
\* main ends, with log.Fatalf when that is an error.
GroupReturn ==
    /\ grPc = "interrupted"
    /\ \A a \in Actors : HasReturnedActor(a)
    /\ grPc' = "returned"
    /\ exit' = IF errors.err # "nil" THEN "fatal" ELSE "ok"
    /\ UNCHANGED <<mainCtx, syncPc, cycles, cycle, fetched, allRes, rulesFile, reloads, errors, sigPc, srvPc>>
    /\ UNCHANGED <<fetcherVars, transportVars, reloadVars>>

\* main started without -tenants-file.
InitSync ==
    /\ InitFetcher({<<TenantName(1)>>}, {FALSE}, TRUE)
    /\ NoTransport /\ NoReloader
    /\ InitMain("run")

NextSync ==
    \/ SyncGetRules \/ SyncCreate \/ SyncWrite \/ SyncClose \/ SyncReload
    \/ SyncTick \/ SyncDone
    \/ SigReturn \/ SrvReturn
    \/ GroupInterrupt \/ GroupReturn

\* main's run.Group without a tenants file: the signal handler, the sync
\* loop and the internal server.
SpecSync == InitSync /\ [][NextSync]_vars

\* main started with -tenants-file, some time after its start: the reloader
\* has made all but three of the reads of the model, all successful.
InitMainReload ==
    /\ InitFetcher({<<TenantName(1)>>}, {FALSE}, TRUE)
    /\ NoTransport /\ NoScan
    /\ relPc = "select" /\ errorCount = 0 /\ relRet = "pending"
    /\ reads = [total |-> MaxReads - 3, ok |-> MaxReads - 3]
    /\ recent = <<TRUE, TRUE, TRUE>>
    /\ InitMain("run")

NextMain == NextSync \/ RelTick \/ RelDone

\* main's run.Group with the tenants file reloader as its first actor.
SpecMain == InitMainReload /\ [][NextMain]_vars

\* ------------------------------------------------------------------ claims

Returned == colPc = "returned"
ReturnedDoc == Returned /\ ret.err = "nil"
ReturnedErr == Returned /\ ret.err # "nil"

\* The fetch goroutines that hold a slot: started and not yet finished.
Running == {i \in 1..Len(tasks) : tasks[i].pc # "done"}

\* The tenants for which a fetch goroutine was started, in start order.
TaskTenants == [i \in 1..Len(tasks) |-> tasks[i].tenant]

\* A result that is a request error, a status outside 2xx or carries a body
\* that cannot be read or parsed.
BadResult(res) ==
    \/ res.err # "nil"
    \/ res.status < 200
    \/ res.status > 299
    \/ res.body.kind # "yaml"

\* Document doc holds every group of tenant t's response res.
Covers(doc, t, res) ==
    \A k \in 1..Len(res.body.groups) :
        \E m \in 1..Len(doc.groups) : doc.groups[m].rules = res.body.groups[k].rules

\* C1: GetTenantsRules is all-or-nothing: a returned document (nil error)
\* holds the groups of every tenant of the snapshot copied under the mutex,
\* and an error comes with no document.
C1_AllOrNothing ==
    /\ ReturnedDoc =>
          /\ ~ret.doc.nil
          /\ \A k \in 1..Len(tenants) :
                \E i \in 1..Len(tasks) :
                    /\ tasks[i].tenant = tenants[k]
                    /\ tasks[i].pc = "done"
                    /\ Covers(ret.doc, tenants[k], tasks[i].res)
    /\ ReturnedErr => ret.doc = NoDoc

\* C2: if the fetch of any tenant ended in a request error, a status outside
\* 2xx or an unusable body, GetTenantsRules does not return a document, and
\* once that result is consumed it has returned an error.
C2_AnyFailureFails ==
    \A i \in 1..Len(tasks) :
        (tasks[i].pc \in {"send", "done"} /\ BadResult(tasks[i].res)) =>
            /\ ~ReturnedDoc
            /\ tasks[i].pc = "done" => ReturnedErr

\* C2's case: tenant t1 answered 500 after tenant t2 had answered 200 and been
\* merged, and the call returned the status error.
C2_Witness ==
    /\ ReturnedErr /\ ret.err = "status"
    /\ Len(tasks) = 2
    /\ tasks[1].pc = "done" /\ tasks[1].res = Doc(500, <<>>)
    /\ tasks[2].pc = "done" /\ tasks[2].res = Doc(200, StoredRules(tasks[2].tenant))

\* C3: in a successful cycle every merged group is named
\* <tenant>.<original name>, with the tenant whose response held the group and
\* the name that tenant returned.
C3_Prefixed ==
    ReturnedDoc =>
        \A k \in 1..Len(ret.doc.groups) :
            LET g == ret.doc.groups[k]
            IN  /\ g.name = g.rules.owner \o Dot \o g.rules.orig
                /\ \E i \in 1..Len(tasks) :
                      /\ tasks[i].tenant = g.rules.owner
                      /\ \E m \in 1..Len(tasks[i].res.body.groups) :
                            tasks[i].res.body.groups[m].rules = g.rules

\* C3's case: a document merged from two tenants, with groups of both.
C3_Witness ==
    /\ ReturnedDoc
    /\ \E k, m \in 1..Len(ret.doc.groups) :
          /\ ret.doc.groups[k].name = TenantName(1) \o Dot \o <<"x">>
          /\ ret.doc.groups[m].name = TenantName(2) \o Dot \o <<"y">>

RECURSIVE GroupCount(_)
\* The number of groups in the responses of the first n fetch goroutines.
GroupCount(n) == IF n = 0 THEN 0 ELSE GroupCount(n - 1) + Len(tasks[n].res.body.groups)

\* C4: in a successful cycle the merged document is the concatenation, in
\* completion order, of the group sequences the tenants returned: as many
\* groups as the responses held together, each response's groups in their order.
C4_Concatenation ==
    ReturnedDoc =>
        /\ Len(ret.doc.groups) = GroupCount(Len(tasks))
        /\ Len(ret.doc.groups) = Len(raw)
        /\ \A k \in 1..Len(raw) : ret.doc.groups[k].rules = raw[k].rules

\* C4's case: two tenants with two groups each, the second one's response
\* consumed first, give four groups.
C4_Witness ==
    /\ ReturnedDoc
    /\ Len(ret.doc.groups) = 4
    /\ TaskTenants = <<TenantName(1), TenantName(2)>>
    /\ ret.doc.groups[1].rules.owner = TenantName(2)
    /\ ret.doc.groups[3].rules.owner = TenantName(1)

\* C5: at most 10 fetch goroutines are started and not finished, each holds
\* one element of the semaphore, and with more than 10 started the surplus
\* had to wait for as many earlier ones to finish.
C5_AtMostTen ==
    /\ Cardinality(Running) <= concurrency
    /\ sem = Cardinality(Running)
    /\ Len(tasks) > concurrency =>
          Cardinality({i \in 1..Len(tasks) : tasks[i].pc = "done"}) >= Len(tasks) - concurrency

\* C5's case: the eleventh tenant's goroutine was started and ten are running.
C5_Witness ==
    /\ Len(tasks) = SemTenants
    /\ Cardinality(Running) = concurrency

\* C6: called with a context that is already cancelled, GetTenantsRules starts
\* no fetch goroutine and does not return a document.
C6_PreCancelled ==
    preCancelled => (Len(tasks) = 0 /\ ~ReturnedDoc)

\* C7: once the cycle's context is done, no fetch goroutine is started.
C7_NoStartAfterCancel == [][ctxDone => Len(tasks') = Len(tasks)]_vars

\* C8: after GetTenantsRules returned an error, every started fetch goroutine
\* eventually hands over its result and ends, and the dispatching goroutine
\* eventually closes the results channel.
C8_NoLeak ==
    ReturnedErr ~> (dPc = "closed" /\ \A i \in 1..Len(tasks) : tasks[i].pc = "done")

\* C9: the loop fetches exactly the tenants of the snapshot copied under the
\* mutex, whatever SetTenants does after the copy.
C9_FetchesSnapshot ==
    /\ dPc \in {"loop", "sendErr", "wait", "closed"} => rangeList = tenants
    /\ \A i \in 1..Len(tasks) : i <= Len(tenants) /\ tasks[i].tenant = tenants[i]

\* C10: the copy made under the mutex is the complete list of the constructor
\* or of the last completed SetTenants, and whenever no SetTenants call is
\* inside its critical section the registry holds exactly that list.
C10_AtomicRegistry ==
    /\ dPc = "unlock" => tenants = lastInstalled
    /\ mtx # "setter" => fTenants = Header(lastInstalled)

\* C10's case: the snapshot of a two-tenant list is taken, and a SetTenants
\* call that got the mutex right after it is half-way through its store.
C10_Witness ==
    /\ dPc = "range"
    /\ Len(tenants) = 2
    /\ setPc \in {"ptrDone", "lenDone"}
    /\ fTenants # Header(lastInstalled)
    /\ fTenants # Header(setArg)

\* C11: every step that stores to f.tenants is taken by SetTenants while it
\* holds tenantsMtx, and every step of GetTenantsRules that reads f.tenants
\* (its length, the copy, the range expression) is taken while the dispatching
\* goroutine holds tenantsMtx.
C11_LockedAccess ==
    [][/\ fTenants' # fTenants => mtx = "setter"
       /\ (dPc \in {"make", "copy", "range"} /\ dPc' # dPc) => mtx = "dispatcher"]_vars

\* ------------------------------------------------- claims on the transport

CallIds == 1..Len(calls)

HasReturned(c) == calls[c].pc = "returned"

\* Every attempt the call has made was answered with a 5xx status.
OnlyServerErrors(c) ==
    /\ calls[c].seen # {}
    /\ \A o \in calls[c].seen : o.err = "nil" /\ o.status >= 500

Max(a, b) == IF a > b THEN a ELSE b

\* The longest wait NextBackOff() can draw stays below 1.5 times the larger
\* of InitialInterval and MaxInterval; `spent` plus that wait is within the
\* budget (twice each side, to stay in whole numbers).
RoomFor(spent) ==
    2 * spent + 3 * Max(backoffConfig.InitialInterval, backoffConfig.MaxInterval)
        < 2 * backoffConfig.MaxElapsedTime

\* C12 as stated: when every attempt is answered 5xx and MaxElapsedTime is
\* greater than InitialInterval, a RoundTrip call that has returned has sent
\* more than one request.
C12_RetriesServerErrors ==
    \A c \in CallIds :
        (/\ HasReturned(c)
         /\ OnlyServerErrors(c)
         /\ backoffConfig.MaxElapsedTime > backoffConfig.InitialInterval)
        => calls[c].attempts > 1

\* C12 amended: when every attempt is answered 5xx and the time the first
\* attempt took plus 1.5 times the larger of InitialInterval and MaxInterval
\* is below MaxElapsedTime, a RoundTrip call that has returned has sent more
\* than one request.
C12_RetriesWithinBudget ==
    \A c \in CallIds :
        (HasReturned(c) /\ OnlyServerErrors(c) /\ RoomFor(calls[c].firstRTT))
        => calls[c].attempts > 1

\* C12's case: under the test's configuration a call whose every attempt was
\* answered 500 has given up after more than one request.
C12_Witness ==
    \E c \in CallIds :
        /\ HasReturned(c)
        /\ OnlyServerErrors(c)
        /\ RoomFor(calls[c].firstRTT)
        /\ backoffConfig.MaxElapsedTime = TestCfg.MaxElapsedTime
        /\ calls[c].attempts > 1

\* A response with a client-error status other than 429.
IsClientError(o) ==
    o.err = "nil" /\ o.status >= 400 /\ o.status <= 499 /\ o.status # StatusTooManyRequests

\* C13: a call whose last attempt was answered with a client-error status
\* other than 429 has returned with that answer, in the step that received
\* it; if it was the first answer, the call made one request, took no
\* Retry-After sleep and never asked the backoff for a wait.
C13_ClientErrorIsPermanent ==
    \A c \in CallIds :
        IsClientError(calls[c].last) =>
            /\ HasReturned(c)
            /\ calls[c].opErr = "client error"
            /\ calls[c].ret.resp = calls[c].last.status
            /\ calls[c].seen = {calls[c].last} =>
                   /\ calls[c].attempts = 1
                   /\ calls[c].naps = 0
                   /\ calls[c].retries = 0
                   /\ now = calls[c].startTime + calls[c].firstRTT

\* C13's case: a 404 to the first request of a call that had its whole
\* budget left, and the call has returned.
C13_Witness ==
    \E c \in CallIds :
        /\ HasReturned(c)
        /\ calls[c].seen = {Response(404, NoHeader)}
        /\ calls[c].attempts = 1
        /\ now - calls[c].startTime < backoffConfig.MaxElapsedTime

\* A 429 response whose Retry-After value parses as a duration.
IsRateLimitHint(o) ==
    o.err = "nil" /\ o.status = StatusTooManyRequests /\ ParseDuration(o.retryAfter).ok

\* The time from the call's startTime to the arrival of its last answer.
SinceAtLastAnswer(c) == calls[c].lastGot - calls[c].startTime

\* The Retry-After delay of the call's last answer fits the budget: d is at
\* most MaxElapsedTime and elapsed time plus d is at most MaxElapsedTime.
HintFits(c) ==
    LET d == ParseDuration(calls[c].last.retryAfter).d
    IN /\ d <= backoffConfig.MaxElapsedTime
       /\ SinceAtLastAnswer(c) + d <= backoffConfig.MaxElapsedTime

\* A 429 whose hint fits is a plain (retryable) error, after a sleep of d.
FittingHintIsRetryable(c) ==
    (IsRateLimitHint(calls[c].last) /\ HintFits(c)) =>
        /\ calls[c].opErr = "rate limit reached"
        /\ calls[c].naps >= 1
        /\ calls[c].lastNap = ParseDuration(calls[c].last.retryAfter).d

C15_ExcessiveHintIsPermanent ==
    \A c \in CallIds :
        (IsRateLimitHint(calls[c].last) /\ ~HintFits(c)) =>
            /\ HasReturned(c)
            /\ calls[c].opErr = "retry-after delay is greater than max elapsed time"
            /\ now = calls[c].lastGot
            /\ calls[c].attempts = 1 =>
                   /\ calls[c].naps = 0
                   /\ calls[c].retries = 0

\* C15's case: under MaxElapsedTime = 200ms a Retry-After of 100ms, which
\* fits the budget by itself, came too late in a call (elapsed time plus
\* 100ms is over 200ms) and ended it without a sleep.
C15_Witness ==
    \E c \in CallIds :
        /\ HasReturned(c)
        /\ backoffConfig.MaxElapsedTime = 200
        /\ calls[c].last = Response(StatusTooManyRequests, RetryAfter100ms)
        /\ ~HintFits(c)
        /\ calls[c].attempts > 1
        /\ now = calls[c].lastGot

\* The call has had an answer to at least one request.
Answered(c) == calls[c].seen # {}

Is2xx(o) == o.err = "nil" /\ o.status >= 200 /\ o.status <= 299

\* C16: the last attempt of a call ended operation() with nil (terminal
\* success, no retry) exactly when it was answered with a 2xx status; every
\* other answer (1xx, 3xx, 4xx, 5xx) ended it with a plain or a permanent
\* error.
C16_SuccessOnly2xx ==
    \A c \in CallIds :
        Answered(c) => (calls[c].opErr = "nil" <=> Is2xx(calls[c].last))

\* C17: when the last attempt of a call ended with a transport error, a
\* timeout is a plain (retryable) error, and any other error is permanent:
\* the call has returned that error in the step that received it, and if it
\* was the first attempt no wait was asked for and no sleep taken.
C17_OnlyTimeoutsRetried ==
    \A c \in CallIds :
        calls[c].last.err # "nil" =>
            IF calls[c].last.err = "timeout"
            THEN calls[c].opKind = "retry"
            ELSE /\ calls[c].opKind = "permanent"
                 /\ HasReturned(c)
                 /\ calls[c].ret.err = calls[c].last.err
                 /\ now = calls[c].lastGot
                 /\ calls[c].attempts = 1 => calls[c].retries = 0 /\ calls[c].naps = 0

\* C17's case: a call whose first request timed out sent a second one, which
\* was refused, and that ended the call with budget to spare.
C17_Witness ==
    \E c \in CallIds :
        /\ HasReturned(c)
        /\ calls[c].seen = {TransportErr("timeout"), TransportErr("refused")}
        /\ calls[c].attempts = 2
        /\ calls[c].last = TransportErr("refused")
        /\ now - calls[c].startTime < backoffConfig.MaxElapsedTime

\* C18: a call that has returned without success returns what the underlying
\* transport gave its last attempt: that response with a nil error, or no
\* response and that transport error; never an error made up by the loop.
C18_ReturnsLastOutcome ==
    \A c \in CallIds :
        (HasReturned(c) /\ calls[c].opKind # "nil") =>
            /\ calls[c].ret.resp = calls[c].last.status
            /\ calls[c].ret.err = calls[c].last.err
            /\ calls[c].last.err = "nil" => calls[c].ret.resp >= 400

\* C18's case: the budget ran out on a call that was answered 500 more than
\* once, and it returned the 500 response with a nil error.
C18_Witness ==
    \E c \in CallIds :
        /\ HasReturned(c)
        /\ calls[c].opKind = "retry"
        /\ calls[c].attempts > 1
        /\ calls[c].last = Response(500, NoHeader)
        /\ calls[c].ret = [resp |-> 500, err |-> "nil"]

\* C19: no request of a call is sent later than MaxElapsedTime after the
\* call's own start (its first attempt), whatever sleeps and waits came
\* before it.
C19_NoAttemptPastBudget ==
    \A c \in CallIds :
        calls[c].attempts > 0 =>
            calls[c].lastSent - calls[c].startTime <= backoffConfig.MaxElapsedTime

\* The backoff interval after k calls of NextBackOff() that follow a Reset().
RECURSIVE IntervalAfter(_)
IntervalAfter(k) ==
    IF k = 0 THEN backoffConfig.InitialInterval
    ELSE IncrementCurrentInterval(
             [backoffConfig EXCEPT !.currentInterval = IntervalAfter(k - 1)]).currentInterval

\* C20: a call that is about to ask for its next wait finds the backoff clock
\* started at its own first attempt and the interval where its own earlier
\* waits left it, whatever other calls on the transport have done meanwhile.
C20_NoInterference ==
    \A c \in CallIds :
        calls[c].pc = "nextBackOff" =>
            /\ backoffConfig.startTime = calls[c].startTime
            /\ backoffConfig.currentInterval = IntervalAfter(calls[c].retries)

\* ----------------------------------------------- claims on the tenants file

\* The distinct non-empty names of a file that decodes.
DistinctNames(f) == IF f.kind = "yaml" THEN {f.names[i] : i \in 1..Len(f.names)} \ {<<>>} ELSE {}

\* C27: a list scanFile returns with a nil error is non-empty, holds no empty
\* name and no name twice, and has exactly the distinct non-empty names of the
\* file; a file with a repeated name is accepted; a file that yields no
\* tenant gets an error.
C27_ScanFileResult ==
    scanOut # NotRead =>
        /\ scanOut.err = "nil" =>
               /\ Len(scanOut.tenants) > 0
               /\ \A i \in 1..Len(scanOut.tenants) : scanOut.tenants[i] # <<>>
               /\ \A i, j \in 1..Len(scanOut.tenants) :
                      i # j => scanOut.tenants[i] # scanOut.tenants[j]
               /\ {scanOut.tenants[i] : i \in 1..Len(scanOut.tenants)} = DistinctNames(fileData)
        /\ DistinctNames(fileData) = {} => scanOut.err # "nil"
        /\ (DistinctNames(fileData) # {} /\ Duplicates(fileData.names) # {}) => scanOut.err = "nil"

\* ------------------------------------------------- claims on the reloader

\* A step in which the reloader reads the tenants file.
ReadStep == reads'.total = reads.total + 1
FailedReadStep == ReadStep /\ reads'.ok = reads.ok
GoodReadStep == ReadStep /\ reads'.ok = reads.ok + 1

AllFailed(seq) == Len(seq) = 3 /\ \A i \in 1..3 : ~seq[i]

\* C21: the third failed read in a row makes the reloader return an error,
\* and a reloader that has returned reads no more and calls SetTenants no
\* more; a first or second failure in a row leaves it in its loop, where the
\* count of errors is always 0, 1 or 2.
C21_ThreeFailuresEnd ==
    [][/\ (relPc = "select" /\ relPc' = "select") => errorCount' \in 0..2
       /\ (FailedReadStep /\ errorCount = 2) => (relPc' = "returned" /\ relRet' = "error")
       /\ (FailedReadStep /\ errorCount < 2) => (relPc' = "select" /\ relRet' = "pending")
       /\ relPc = "returned" => (reads' = reads /\ setCalls' = setCalls /\ relRet' = relRet)]_vars

C21_Witness ==
    /\ relRet = "error"
    /\ reads.ok = 1
    /\ reads.total = 6

RECURSIVE TrailingFailures(_)
TrailingFailures(seq) ==
    IF seq = <<>> \/ seq[Len(seq)] THEN 0
    ELSE 1 + TrailingFailures(SubSeq(seq, 1, Len(seq) - 1))

\* C22: the count of errors is the number of failed reads since the last
\* successful one (zero right after a success), and the reloader has returned
\* an error only when its three latest reads all failed.
C22_SuccessResets ==
    /\ errorCount = TrailingFailures(recent)
    /\ relRet = "error" => AllFailed(recent)

\* fail, success, fail, fail, success, fail, fail: still in the loop.
C22_Witness ==
    /\ reads.total = 7
    /\ reads.ok = 2
    /\ errorCount = 2
    /\ relPc = "select"

\* C23: a reloader that returns while its context is cancelled returns nil,
\* whatever its count of errors.
C23_CancelReturnsNil ==
    [][(mainCtx /\ relPc = "select" /\ relPc' = "returned") => relRet' = "nil"]_vars

\* C24: a failed read changes nothing in the registry and makes no SetTenants
\* call; as long as no read has succeeded SetTenants has not been called.
C24_FailedReadKeepsRegistry ==
    [][/\ FailedReadStep => UNCHANGED <<fTenants, lastInstalled, setCalls, setArg>>
       /\ reads'.ok = 0 => setCalls' = 0]_vars

C24_Witness ==
    /\ reads.ok = 0
    /\ reads.total = 3
    /\ relRet = "error"
    /\ setCalls = 0
    /\ Elems(fTenants) = <<TenantName(1)>>

\* C25: a successful read comes with exactly one SetTenants call, whose
\* argument is the list just read; SetTenants has been called as many times
\* as reads have succeeded, and between successful reads the registry keeps
\* the list read last.
C25_EveryGoodReadInstalled ==
    [][/\ GoodReadStep => /\ setCalls' = setCalls + 1
                          /\ lastInstalled' = scanOut'.tenants
                          /\ Elems(fTenants') = scanOut'.tenants
       /\ setCalls' = reads'.ok
       /\ ~GoodReadStep => UNCHANGED <<fTenants, lastInstalled>>]_vars

C25_Witness ==
    /\ reads.ok = 2
    /\ reads.total = 3
    /\ scanOut.err # "nil"
    /\ Elems(fTenants) = <<TenantName(1), TenantName(2)>>

\* ------------------------------------------------------- claims on main

\* C26 as stated: after the reloader has returned its error the sync loop is
\* still running and main has not ended.
C26_FetchKeepsRunning ==
    relRet = "error" => (syncPc # "returned" /\ exit = "no")

\* C26: once run.Group.Run has seen an actor return (the reloader with its
\* error, for one) the context of the sync loop is cancelled; Run returns only
\* when every actor, the sync loop included, has returned, and main then ends
\* with log.Fatalf; when the reloader is the first to return, its error is
\* what Run returns.
C26_ReloaderErrorEndsAll ==
    /\ (relRet = "error" /\ grPc # "run") => mainCtx
    /\ errors.actor = "reloader" => (relRet = "error" /\ errors.err = "error")
    /\ grPc = "returned" => /\ \A a \in Actors : HasReturnedActor(a)
                            /\ exit = "fatal"
    /\ grPc # "returned" => exit = "no"

C26_Witness ==
    /\ relRet = "error"
    /\ errors.actor = "reloader"
    /\ grPc = "returned"
    /\ syncPc = "returned"
    /\ exit = "fatal"

\* C28: in a sync cycle whose fetch has failed no step creates, truncates or
\* writes the rules file and none posts to the reload endpoint.
C28_FailedFetchTouchesNothing ==
    [][cycle'.fetch = "failed" =>
           /\ rulesFile' = rulesFile
           /\ reloads' = reloads
           /\ ~cycle'.created /\ ~cycle'.written /\ ~cycle'.posted]_vars

\* The second cycle's fetch failed: the file of the first cycle is intact.
C28_Witness ==
    /\ cycles = 2
    /\ cycle.fetch = "failed"
    /\ syncPc = "select"
    /\ rulesFile = [exists |-> TRUE, body |-> Doc(200, StoredRules(TenantName(1))).body]
    /\ reloads = 1

\* C29: within a cycle the file is created only after the fetch succeeded,
\* written only after it was created, closed only after it was written, and
\* the POST to /-/reload is sent only after it was closed without error; at
\* the time of the POST the file holds the body fetched in that cycle.
C29_FetchWriteReload ==
    [][/\ cycle'.created => cycle'.fetch = "ok"
       /\ cycle'.written => cycle'.created
       /\ cycle'.closed => cycle'.written
       /\ cycle'.posted => cycle'.closed
       /\ rulesFile' # rulesFile => (cycle.fetch = "ok" /\ ~cycle.closed /\ ~cycle.posted)
       /\ reloads' # reloads =>
              /\ reloads' = reloads + 1
              /\ cycle.fetch = "ok" /\ cycle.created /\ cycle.written /\ cycle.closed
              /\ rulesFile = [exists |-> TRUE, body |-> fetched.body]]_vars

C29_Witness ==
    /\ cycles = 2
    /\ reloads = 2
    /\ cycle.posted
    /\ rulesFile.body = fetched.body

\* C30: GetAllRules makes one ListAllRules request, leaves the fetcher's
\* tenant list, mutex and per-tenant tasks alone, and returns the body of the
\* response as it is for a 2xx status, an error and no body for a failed
\* request and for every other status.
C30_GetAllRulesPassThrough ==
    [][cycle'.requests > cycle.requests =>
           /\ cycle'.requests = 1
           /\ UNCHANGED fetcherVars
           /\ IF allRes'.err = "nil" /\ allRes'.status \in 200..299
              THEN fetched' = [body |-> allRes'.body, err |-> "nil"]
              ELSE fetched'.body = NoBody /\ fetched'.err \notin {"nil", "pending"}]_vars

C30_Witness ==
    /\ cycle.requests = 1
    /\ allRes = Text(299)
    /\ fetched = [body |-> Text(299).body, err |-> "nil"]
    /\ tasks = <<>>

\* ------------------------------------ claims on the transport, again

\* C33: when a request follows an answer of 429 with a parseable Retry-After
\* delay d, the time between that answer and the request is d plus the wait
\* the backoff policy gave for the step, and that wait is not zero.
C33_DelayAdded ==
    \A c \in CallIds :
        (/\ calls[c].pc = "inflight"
         /\ calls[c].attempts > 1
         /\ IsRateLimitHint(calls[c].last))
        => /\ calls[c].lastNap = ParseDuration(calls[c].last.retryAfter).d
           /\ calls[c].lastWait > 0
           /\ calls[c].lastSent - calls[c].lastGot = calls[c].lastNap + calls[c].lastWait

\* The second request goes out more than 100ms after a 429 with Retry-After:
\* 100ms, under the test's configuration.
C33_Witness ==
    \E c \in CallIds :
        /\ calls[c].pc = "inflight"
        /\ calls[c].attempts = 2
        /\ calls[c].last = Response(StatusTooManyRequests, RetryAfter100ms)
        /\ backoffConfig.InitialInterval = TestCfg.InitialInterval
        /\ calls[c].lastSent - calls[c].lastGot >= 100 + 25

\* A 429 without a Retry-After header, or with one that is no duration.
IsRateLimitNoHint(o) ==
    o.err = "nil" /\ o.status = StatusTooManyRequests /\ ~ParseDuration(o.retryAfter).ok

\* C34: a call whose last answer was a 429 without a parseable Retry-After
\* value holds a plain (retryable) error and is not sleeping; it has returned
\* only if the backoff policy then said stop; and when its next request is
\* out, the time since that answer is the backoff wait alone.
C34_NoHintIsRetryable ==
    \A c \in CallIds :
        IsRateLimitNoHint(calls[c].last) =>
            /\ calls[c].opKind = "retry"
            /\ calls[c].opErr = "rate limit reached"
            /\ calls[c].pc # "sleep"
            /\ calls[c].pc = "returned" => calls[c].retries >= 1
            /\ calls[c].pc = "inflight" =>
                   calls[c].lastSent - calls[c].lastGot = calls[c].lastWait

\* A 429 with Retry-After: 120 was followed by a second request.
C34_Witness ==
    \E c \in CallIds :
        /\ calls[c].pc = "inflight"
        /\ calls[c].attempts = 2
        /\ calls[c].naps = 0
        /\ calls[c].last = Response(StatusTooManyRequests, RetryAfterSeconds)
        /\ calls[c].lastSent - calls[c].lastGot = calls[c].lastWait

\* The call has just been given a backoff wait.
Waiting(c) == calls[c].pc = "wait"

\* C35 as stated: the first backoff wait of a call is InitialInterval, and no
\* backoff wait is longer than MaxInterval.
C35_WaitsWithinMaxInterval ==
    \A c \in CallIds :
        Waiting(c) =>
            /\ calls[c].lastWait <= backoffConfig.MaxInterval
            /\ calls[c].retries = 1 => calls[c].lastWait = backoffConfig.InitialInterval

\* C35 amended: every backoff wait is between half the smaller and one and a
\* half times the larger of InitialInterval and MaxInterval; and the k-th
\* wait of a call that has the transport to itself is between 0.5 and 1.5
\* times the interval that starts at InitialInterval and is multiplied by 1.5
\* and capped at MaxInterval after every wait. (Twice each side, and one unit
\* of rounding, to stay in whole numbers.)
C35_WaitsAroundInterval ==
    \A c \in CallIds :
        Waiting(c) =>
            /\ 2 * calls[c].lastWait + 1
                   >= Min(backoffConfig.InitialInterval, backoffConfig.MaxInterval)
            /\ 2 * calls[c].lastWait
                   <= 3 * Max(backoffConfig.InitialInterval, backoffConfig.MaxInterval) + 2
            /\ Len(calls) = 1 =>
                   /\ 2 * calls[c].lastWait + 1 >= IntervalAfter(calls[c].retries - 1)
                   /\ 2 * calls[c].lastWait <= 3 * IntervalAfter(calls[c].retries - 1) + 2

\* A third wait of more than MaxInterval, drawn around the capped interval.
C35_Witness ==
    \E c \in CallIds :
        /\ Waiting(c)
        /\ calls[c].retries = 3
        /\ IntervalAfter(2) = backoffConfig.MaxInterval
        /\ IntervalAfter(0) < IntervalAfter(1)
        /\ calls[c].lastWait > backoffConfig.MaxInterval

\* The call is inside backoff.Retry.
Underway(c) == calls[c].pc \notin {"idle", "returned"}

\* What NextBackOff would still accept as elapsed time plus wait.
RemainingBudget == backoffConfig.MaxElapsedTime - (now - backoffConfig.startTime)

C32_AbortsOnCancel ==
    \A c \in CallIds :
        calls[c].ctx # "live" =>
            /\ calls[c].late = 0
            /\ now > calls[c].ended => calls[c].pc = "returned"

\* -------------------------------------------- claims on the cycle, again

\* The steps the dispatching goroutine has before it, its starts of fetch
\* goroutines apart.
DispatcherSteps ==
    CASE dPc = "lock" -> 7 [] dPc = "make" -> 6 [] dPc = "copy" -> 5 [] dPc = "unlock" -> 4
      [] dPc = "range" -> 3 [] dPc = "loop" -> 2 [] dPc = "wait" -> 1 [] OTHER -> 0

RECURSIVE WorkerSteps(_)
\* The steps the fetch goroutines started so far have before them.
WorkerSteps(i) ==
    IF i = 0 THEN 0
    ELSE WorkerSteps(i - 1)
         + (CASE tasks[i].pc = "fetch" -> 2 [] tasks[i].pc = "send" -> 1 [] OTHER -> 0)

\* The steps a cycle over SemTenants tenants has before it: those of the
\* dispatcher, three for every goroutine not yet started (its start, its
\* response, its send), those of the goroutines started, and the return.
CycleSteps ==
    DispatcherSteps + 3 * (SemTenants - Len(tasks)) + WorkerSteps(Len(tasks))
    + (IF colPc = "recv" THEN 1 ELSE 0)

\* C31: a cycle over more tenants than the semaphore has slots, against a
\* backend that answers every tenant, with a context that is never cancelled,
\* returns the merged document: every step brings the cycle one step nearer
\* to its end, some goroutine can take a step as long as a step is left (no
\* deadlock between dispatcher, workers and collector, no goroutine waits for
\* a slot for ever), and with no step left the document is returned, every
\* goroutine has finished, the semaphore is empty and the channel is closed.
C31_ReturnsMergedDocument ==
    /\ [][CycleSteps' = CycleSteps - 1]_vars
    /\ [](CycleSteps > 0 => ENABLED NextSem)
    /\ [](CycleSteps = 0 =>
            /\ ReturnedDoc
            /\ dPc = "closed"
            /\ Len(tasks) = SemTenants
            /\ \A i \in 1..Len(tasks) : tasks[i].pc = "done"
            /\ sem = 0 /\ wg = 0
            /\ Len(ret.doc.groups) = Len(raw))

\* The eleventh goroutine got its slot and the document was returned.
C31_Witness ==
    /\ ReturnedDoc
    /\ Len(tasks) = SemTenants
    /\ tasks[SemTenants].pc = "done"
    /\ dPc = "closed"
    /\ CycleSteps = 0

\* C37: tenantsMtx is held by the dispatching goroutine only between its
\* Lock() and the Unlock() that follows the copy, where no task exists yet,
\* nothing was sent or received and no step of it can block; it is held by
\* SetTenants only for the store of the list. Outside these steps the mutex
\* is free, so a SetTenants call waits for a cycle no longer than one copy.
C37_HeldOnlyForSwapOrCopy ==
    /\ mtx = "dispatcher" <=> dPc \in {"make", "copy", "unlock"}
    /\ mtx = "setter" <=> setPc \in {"locked", "ptrDone", "lenDone", "written"}
    /\ mtx = "dispatcher" =>
          /\ Len(tasks) = 0 /\ sem = 0 /\ wg = 0 /\ raw = <<>> /\ colPc = "recv"
          /\ ENABLED (DMake \/ DCopy \/ DUnlock)
    /\ (setPc = "idle" /\ setCalls < MaxSetCalls /\ dPc \notin {"make", "copy", "unlock"})
          => ENABLED SetLock

\* C37's case: SetTenants holds the mutex while a request of the running
\* cycle is in flight and another task waits to send its result.
C37_Witness ==
    /\ mtx = "setter"
    /\ dPc = "loop"
    /\ \E i \in 1..Len(tasks) : tasks[i].pc = "fetch"
    /\ \E i \in 1..Len(tasks) : tasks[i].pc = "send"

\* --------------------------------------------------- claims on main, again

\* C38: with a tenants file (the reloader is an actor of the group), a sync
\* cycle that has fetched did so through GetTenantsRules.
C38_FetchesPerTenant ==
    (relPc # "off" /\ cycle.requests > 0) => cycle.via = "GetTenantsRules"

\* ------------------------------------------------ claims on the group names

\* No element occurs twice in the sequence.
PairwiseDistinct(seq) == \A i, j \in 1..Len(seq) : i # j => seq[i] # seq[j]

GroupNames(groups) == [i \in 1..Len(groups) |-> groups[i].name]

\* C39: when the tenants of the snapshot are pairwise distinct and the group
\* names of each tenant are pairwise distinct, the group names of the merged
\* document are pairwise distinct.
C39_MergedNamesDistinct ==
    (/\ ReturnedDoc
     /\ PairwiseDistinct(tenants)
     /\ \A i \in 1..Len(tenants) : PairwiseDistinct(GroupNames(StoredRules(tenants[i]))))
        => PairwiseDistinct(GroupNames(ret.doc.groups))

\* ------------------------------------------ claims on the snapshot, again

\* C40: once the snapshot is copied and is empty, no fetch task is started,
\* no request is sent, and the call, when it returns, returns a document of
\* zero groups and no error.
C40_EmptySnapshot ==
    (dPc \notin {"lock", "make", "copy"} /\ tenants = <<>>) =>
        /\ Len(tasks) = 0
        /\ raw = <<>>
        /\ Returned => (ReturnedDoc /\ ret.doc.groups = <<>>)

====
